---------------------------- MODULE Spec2Model ----------------------------
(***************************************************************************)
(* Model of the product-search endpoint described in                       *)
(* src/unnamed/part_001: query preprocessing, weighted name vectors, the   *)
(* three-tier SQL query with its ordering and pagination, and the          *)
(* interaction of the endpoint with concurrent requests and vector         *)
(* rebuilds.                                                               *)
(*                                                                         *)
(* Strings are sequences of one-character strings.  Similarity scores are  *)
(* integers in hundredths (0.35 is 35).                                    *)
(***************************************************************************)
EXTENDS Integers, Sequences, FiniteSets, TLC

VARIABLES
    \* query preprocessing (handler lines 343-379)
    qRaw, lang, q, splitQ, perfectCodes, similarityQ, tsQuery, codes, tokPc,
    \* weighted vector construction (addWeightToString)
    wValue, wWeight, wOut, wPc,
    \* the search query against a catalog snapshot (handler lines 381-603)
    catalog, limit, zone, finish, pages,
    \* the name vector of one product: the rebuild and one statement's reads
    vecLang, vecProduct, nameVector, built, rebuildPc, rebuilds,
    stmtPc, statements, snapshot, ftVector, simVector,
    \* concurrent invocations of the handler
    event, reqPc, scope, statement, reply, response,
    \* one call of average_highest_similarity
    scQuery, scVector, scEntries, scIndex, scMaxWord, scMatches,
    \* requests against concrete products
    items, queries,
    \* one request from its validation to its response
    reqPage, valPc, stmtResult, failure

tokVars == <<qRaw, lang, q, splitQ, perfectCodes, similarityQ, tsQuery, codes,
             tokPc>>
weightVars == <<wValue, wWeight, wOut, wPc>>
searchVars == <<catalog, limit, zone, finish, pages>>
vecVars == <<vecLang, vecProduct, nameVector, built, rebuildPc, rebuilds,
             stmtPc, statements, snapshot, ftVector, simVector>>
parVars == <<event, reqPc, scope, statement, reply, response>>
scoreVars == <<scQuery, scVector, scEntries, scIndex, scMaxWord, scMatches>>
matchVars == <<items, queries>>
valVars == <<reqPage, valPc, stmtResult, failure>>
vars == <<tokVars, weightVars, searchVars, vecVars, parVars, scoreVars,
          matchVars, valVars>>

-----------------------------------------------------------------------------
(* Bounds of the model *)

MaxQueryLen == 5
MaxFieldLen == 5
MaxProducts == 3
MaxRankProducts == 2
MaxLimit == 2
MaxPages == 2
MaxRebuilds == 2
MaxStatements == 2
MaxScoreQueryLen == 4
MaxEntries == 2
MaxWords == 2
MaxItems == 2
MaxFacetProducts == 2
MaxListEntries == 1

-----------------------------------------------------------------------------
(* Generic string helpers *)

\* All sequences over S of length at most n.
SeqsUpTo(S, n) == UNION {[1..k -> S] : k \in 0..n}

Max(a, b) == IF a >= b THEN a ELSE b

Min(a, b) == IF a <= b THEN a ELSE b

Range(f) == {f[i] : i \in DOMAIN f}

\* The orderings of a finite set: its elements in a sequence, each once.
Perms(S) ==
    {f \in [1..Cardinality(S) -> S] : \A i, j \in DOMAIN f : f[i] = f[j] => i = j}

\* \s of the regular expressions and the whitespace of trim(): the space and
\* the tab.
IsSpace(c) == c \in {" ", "\t"}

RECURSIVE SkipSpaces(_, _)
SkipSpaces(s, i) ==
    IF i <= Len(s) /\ IsSpace(s[i]) THEN SkipSpaces(s, i + 1) ELSE i

\* String.prototype.split(/,\s*|\s+/): a comma with the whitespace after it,
\* or a run of whitespace, separates two tokens; empty tokens are kept.
RECURSIVE SplitRegexFrom(_, _, _)
SplitRegexFrom(s, i, cur) ==
    IF i > Len(s) THEN <<cur>>
    ELSE IF s[i] = "," \/ IsSpace(s[i])
         THEN <<cur>> \o SplitRegexFrom(s, SkipSpaces(s, i + 1), <<>>)
         ELSE SplitRegexFrom(s, i + 1, Append(cur, s[i]))

SplitRegex(s) == SplitRegexFrom(s, 1, <<>>)

\* String.prototype.split(' '): every single space separates two tokens.
RECURSIVE SplitSpaceFrom(_, _, _)
SplitSpaceFrom(s, i, cur) ==
    IF i > Len(s) THEN <<cur>>
    ELSE IF s[i] = " "
         THEN <<cur>> \o SplitSpaceFrom(s, i + 1, <<>>)
         ELSE SplitSpaceFrom(s, i + 1, Append(cur, s[i]))

SplitSpace(s) == SplitSpaceFrom(s, 1, <<>>)

\* Array.prototype.join(' ')
RECURSIVE JoinSpace(_)
JoinSpace(toks) ==
    IF Len(toks) = 0 THEN <<>>
    ELSE IF Len(toks) = 1 THEN toks[1]
    ELSE toks[1] \o <<" ">> \o JoinSpace(Tail(toks))

NonEmpty(t) == t # <<>>

-----------------------------------------------------------------------------
(* Text normalizer *)

\* The alphabet of the modelled queries.  "a^" stands for the accented
\* letter a-grave, one character of the query.
QueryChars == {"a", "A", "w", " ", ",", "a^", "-"}

Languages == {"it", "pl"}

\* The connector words of two of the languages, as far as the source lists them.
PREPOSITIONS ==
    [l \in Languages |->
        IF l = "it"
        THEN {<<"a">>, <<"c", "o", "n">>, <<"d", "a">>, <<"d", "i">>}
        ELSE {<<"b", "e", "z">>, <<"d", "l", "a">>, <<"d", "o">>, <<"n", "a">>,
              <<"n", "a", "d">>, <<"p", "o", "d">>, <<"p", "r", "z", "y">>,
              <<"w">>, <<"z">>, <<"z", "a">>}]

ToLowerChar(c) == IF c = "A" THEN "a" ELSE c

ToLower(s) == [i \in 1..Len(s) |-> ToLowerChar(s[i])]

\* A faulty variant: connector words are dropped wherever they stand.
removeAllWords(value, words) ==
    LET toks == SplitSpace(value)
    IN  JoinSpace(SelectSeq(toks, LAMBDA t : ToLower(t) \notin words))

\* Interior tokens that are connector words (compared in lower case) are
\* dropped; the first and the last token always stay.
removeWordsBetweenFirstAndLast(value, words) ==
    LET toks == SplitSpace(value)
        n == Len(toks)
        keep(i) == i = 1 \/ i = n \/ ToLower(toks[i]) \notin words
        RECURSIVE pick(_)
        pick(i) == IF i > n THEN <<>>
                   ELSE (IF keep(i) THEN <<toks[i]>> ELSE <<>>) \o pick(i + 1)
    IN  JoinSpace(pick(1))

removeDiacriticsChar(c) == IF c = "a^" THEN "a" ELSE c

removeDiacritics(s) == [i \in 1..Len(s) |-> removeDiacriticsChar(s[i])]

\* const q = removeDiacritics(removeWordsBetweenFirstAndLast(qRaw, PREPOSITIONS[lang]))
NormalizedQuery(raw, l) ==
    removeDiacritics(removeWordsBetweenFirstAndLast(raw, PREPOSITIONS[l]))

-----------------------------------------------------------------------------
(* Query tokenizer and code expander *)

\* !splitQ[index + 1] is false exactly when a next token exists and is not
\* the empty string.
HasNextToken(toks, i) == i + 1 <= Len(toks) /\ toks[i + 1] # <<>>

RECURSIVE perfectCodesFrom(_, _)
perfectCodesFrom(toks, i) ==
    IF i > Len(toks) THEN <<>>
    ELSE (IF ~HasNextToken(toks, i)
          THEN <<toks[i]>>
          ELSE <<toks[i], toks[i] \o <<"_">> \o toks[i + 1]>>)
         \o perfectCodesFrom(toks, i + 1)

perfectCodesOf(toks) == perfectCodesFrom(toks, 1)

\* term.length > 3 ? term.slice(0, term.length - 1) : term
Truncated(term) ==
    IF Len(term) > 3 THEN SubSeq(term, 1, Len(term) - 1) ELSE term

\* q.split(' ').map(truncate).join(' ')
similarityQOf(query) ==
    LET terms == SplitSpace(query)
    IN  JoinSpace([i \in 1..Len(terms) |-> Truncated(terms[i])])

\* \w of the regular expressions: of the alphabets, the letters a, A and w
\* and the underscore; the accented letter, the space, the comma and the
\* hyphen are \W.
IsWordChar(c) == c \in {"a", "A", "w", "_"}

\* q.replace(/\W/g, '')
StripNonWord(term) == SelectSeq(term, IsWordChar)

\* Array.prototype.join(' | ')
RECURSIVE JoinOr(_)
JoinOr(terms) ==
    IF Len(terms) = 0 THEN <<>>
    ELSE IF Len(terms) = 1 THEN terms[1]
    ELSE terms[1] \o <<" ", "|", " ">> \o JoinOr(Tail(terms))

\* A faulty variant: a term of at most three characters gets no ":*".
tsTermVerbatim(term) ==
    IF Len(term) > 3 THEN SubSeq(term, 1, Len(term) - 1) \o <<":", "*">>
    ELSE term

\* term.length > 3 ? `${term.slice(0, term.length - 1)}:*` : `${term}:*`
tsTerm(term) ==
    IF Len(term) > 3 THEN SubSeq(term, 1, Len(term) - 1) \o <<":", "*">>
    ELSE term \o <<":", "*">>

\* splitQ.map(strip).filter(non-empty).map(tsTerm).join(' | ')
tsQueryOf(toks) ==
    LET stripped == SelectSeq([i \in 1..Len(toks) |-> StripNonWord(toks[i])],
                              NonEmpty)
    IN  JoinOr([i \in 1..Len(stripped) |-> tsTerm(stripped[i])])

\* perfectCodes.map((option) => `%${option}%`)
codesOf(options) ==
    [i \in 1..Len(options) |-> <<"%">> \o options[i] \o <<"%">>]

TokInit ==
    /\ qRaw \in SeqsUpTo(QueryChars, MaxQueryLen)
    /\ lang \in Languages
    /\ q = <<>>
    /\ splitQ = <<>>
    /\ perfectCodes = <<>>
    /\ similarityQ = <<>>
    /\ tsQuery = <<>>
    /\ codes = <<>>
    /\ tokPc = "start"

TokIdle ==
    /\ qRaw = <<>>
    /\ lang = "it"
    /\ q = <<>>
    /\ splitQ = <<>>
    /\ perfectCodes = <<>>
    /\ similarityQ = <<>>
    /\ tsQuery = <<>>
    /\ codes = <<>>
    /\ tokPc = "idle"

\* The preprocessing of one request, handler lines 356-379.
Preprocess ==
    /\ tokPc = "start"
    /\ q' = NormalizedQuery(qRaw, lang)
    /\ splitQ' = SplitRegex(q')
    /\ perfectCodes' = perfectCodesOf(splitQ')
    /\ similarityQ' = similarityQOf(q')
    /\ tsQuery' = tsQueryOf(splitQ')
    /\ codes' = codesOf(perfectCodes')
    /\ tokPc' = "done"
    /\ UNCHANGED <<qRaw, lang>>

-----------------------------------------------------------------------------
(* Weighted vector builder *)

FieldChars == {"a", "w", " "}

\* The base weights buildNameVector passes to addWeightToString.
BaseWeights == {13, 8, 5, 3, 2, 1}

Digit(d) == CASE d = 0 -> "0" [] d = 1 -> "1" [] d = 2 -> "2" [] d = 3 -> "3"
              [] d = 4 -> "4" [] d = 5 -> "5" [] d = 6 -> "6" [] d = 7 -> "7"
              [] d = 8 -> "8" [] d = 9 -> "9"

\* Number to string, for the weights that occur (0 <= n < 100).
NumberToString(n) ==
    IF n < 10 THEN <<Digit(n)>> ELSE <<Digit(n \div 10), Digit(n % 10)>>

\* The template string: (weight - index > 0 ? weight - index : 1), ":", value.
WeightedToken(tok, weight, index) ==
    NumberToString(IF weight - index > 0 THEN weight - index ELSE 1)
        \o <<":">> \o tok

\* A faulty variant: the index counts the empty tokens too (map before filter).
addWeightUnfiltered(value, weight) ==
    IF value = <<>> THEN value
    ELSE LET toks == SplitSpace(value)
             idx == {i \in 1..Len(toks) : NonEmpty(toks[i])}
             RECURSIVE out(_)
             out(i) == IF i > Len(toks) THEN <<>>
                       ELSE (IF i \in idx
                             THEN <<WeightedToken(toks[i], weight, i - 1)>>
                             ELSE <<>>) \o out(i + 1)
         IN  JoinSpace(out(1))

addWeightToString(value, weight) ==
    IF value = <<>> THEN value
    ELSE LET toks == SelectSeq(SplitSpace(value), NonEmpty)
         IN  JoinSpace([i \in 1..Len(toks) |->
                            WeightedToken(toks[i], weight, i - 1)])

WeightInit ==
    /\ wValue \in SeqsUpTo(FieldChars, MaxFieldLen)
    /\ wWeight \in BaseWeights
    /\ wOut = <<>>
    /\ wPc = "start"

WeightIdle ==
    /\ wValue = <<>>
    /\ wWeight = 1
    /\ wOut = <<>>
    /\ wPc = "idle"

\* One call of addWeightToString by buildNameVector.
AddWeight ==
    /\ wPc = "start"
    /\ wOut' = addWeightToString(wValue, wWeight)
    /\ wPc' = "done"
    /\ UNCHANGED <<wValue, wWeight>>


-----------------------------------------------------------------------------
(* The search query.                                                       *)
(*                                                                         *)
(* A product of the catalog is a record of what the query reads of it for  *)
(* the request's query string:                                             *)
(*   dataEligible, stock  the flags isSearchBarEligibleByData / ByStock    *)
(*   exactHit     ean = ANY(splitQ) OR code = ANY(perfectCodes)            *)
(*   partialHit   code LIKE ANY(codes) OR the name vector matches tsQuery  *)
(*   promoted     code = ANY(PROMOTED_CODES)                               *)
(*   simT, simQ   the row average_highest_similarity returns for the name  *)
(*                vector and similarityQ, respectively q                   *)
(*   priority, plc, zone, finishes  category priority, lifecycle stage,    *)
(*                category zone tags, associated finish ids                *)
(* A nullable value is a set: {} is NULL, {v} is the value v.              *)
(***************************************************************************)

PRODUCTS_QUERY_SENSITIVITY == 35

ProductIds == DOMAIN catalog

\* PreloadedQuery: WHERE product."isSearchBarEligibleByData" = true
PreloadedQuery == {i \in ProductIds : catalog[i].dataEligible}

\* CASE WHEN 'Nowosc' THEN 1 WHEN 'Normalny' THEN 0.5 ELSE 0, in tenths.
plcRank(p) ==
    IF p.plc = "Nowosc" THEN 10 ELSE IF p.plc = "Normalny" THEN 5 ELSE 0

\* FilteredQueryBeforeCheck: the CASE giving exactMatchPriority.
exactMatchPriority(p) ==
    IF p.exactHit THEN 2 ELSE IF p.partialHit THEN 1 ELSE 0

\* A faulty variant: the stock filter lets every matching row pass.
FilteredQueryAnyMatch ==
    {i \in PreloadedQuery : catalog[i].stock \/ exactMatchPriority(catalog[i]) >= 1}

\* FilteredQuery: WHERE (isSearchBarEligibleByStock = true OR exactMatchPriority = 2)
FilteredQuery ==
    {i \in PreloadedQuery : catalog[i].stock \/ exactMatchPriority(catalog[i]) = 2}

\* A faulty variant: the flags are taken over the rows before the stock filter.
HasMatchBeforeStock(n) ==
    IF PreloadedQuery = {} THEN {}
    ELSE IF \E i \in PreloadedQuery : exactMatchPriority(catalog[i]) = n
         THEN {1} ELSE {0}

\* MAX(CASE WHEN exactMatchPriority = n THEN 1 ELSE 0 END) over FilteredQuery:
\* NULL over no rows.
HasMatch(n) ==
    IF FilteredQuery = {} THEN {}
    ELSE IF \E i \in FilteredQuery : exactMatchPriority(catalog[i]) = n
         THEN {1} ELSE {0}

has_exact == HasMatch(2)

has_partial == HasMatch(1)

\* A row of ExactAndPartialMatches or SimilarityMatches: fq.* (the product,
\* by its id) with the avg_similarity and avg_similarity_without_worst the
\* lateral join added.
Row(i, s) == [id |-> i, avg |-> s.avg, avgww |-> s.avgww]

\* A faulty variant: every row that matched at all, whatever the other rows are.
ExactAndPartialPerItem ==
    {Row(i, catalog[i].simT) :
        i \in {x \in FilteredQuery : exactMatchPriority(catalog[x]) >= 1}}

\* ExactAndPartialMatches: the rows of the active tier, scored against
\* similarityQ.
ExactAndPartialMatches ==
    LET he == has_exact
        hp == has_partial
    IN  {Row(i, catalog[i].simT) :
            i \in {x \in FilteredQuery :
                      \/ he = {1} /\ exactMatchPriority(catalog[x]) = 2
                      \/ he = {0} /\ hp = {1}
                             /\ exactMatchPriority(catalog[x]) = 1}}

\* A faulty variant: a score equal to the threshold is let in.
AboveSensitivityInclusive(s) ==
    \/ s.min >= PRODUCTS_QUERY_SENSITIVITY
    \/ s.minww >= PRODUCTS_QUERY_SENSITIVITY

\* (ahs.min_similarity > S) OR (ahs.min_similarity_without_worst > S)
AboveSensitivity(s) ==
    \/ s.min > PRODUCTS_QUERY_SENSITIVITY
    \/ s.minww > PRODUCTS_QUERY_SENSITIVITY

\* SimilarityMatches: the fuzzy tier, scored against q.
SimilarityMatches ==
    LET he == has_exact
        hp == has_partial
    IN  {Row(i, catalog[i].simQ) :
            i \in {x \in FilteredQuery :
                      /\ he = {0}
                      /\ hp = {0}
                      /\ AboveSensitivity(catalog[x].simQ)}}

\* RankedResults: ExactAndPartialMatches UNION ALL SimilarityMatches.  The two
\* never both have rows, so the rows are a set.
RankedResults == ExactAndPartialMatches \cup SimilarityMatches

\* A faulty variant: a row without zone tags passes the zone filter.
ProductsPoolNullZonePasses ==
    IF zone = {} THEN RankedResults
    ELSE {r \in RankedResults :
             \/ catalog[r.id].zone = {}
             \/ \E z \in catalog[r.id].zone, want \in zone : z \cap want # {}}

\* ProductsPool: the optional zone filter,
\* categoryZone IS NOT NULL AND categoryZone && ARRAY[zones].
ProductsPool ==
    IF zone = {} THEN RankedResults
    ELSE {r \in RankedResults :
             \E z \in catalog[r.id].zone, want \in zone : z \cap want # {}}

\* FinalProductsPool: the optional finish filter, EXISTS a _productFinish row.
FinalProductsPool ==
    IF finish = {} THEN ProductsPool
    ELSE {r \in ProductsPool :
             \E want \in finish : catalog[r.id].finishes \cap want # {}}

\* A faulty variant: the ORDER BY without its first term.
SortsBeforeIgnoringPromotion(a, b) ==
    LET pa == catalog[a.id]
        pb == catalog[b.id]
    IN  IF a.avg # b.avg THEN a.avg > b.avg
        ELSE IF a.avgww # b.avgww THEN a.avgww > b.avgww
        ELSE IF pa.priority # pb.priority THEN pa.priority > pb.priority
        ELSE IF plcRank(pa) # plcRank(pb) THEN plcRank(pa) > plcRank(pb)
        ELSE FALSE

\* ORDER BY promoted DESC, avg_similarity DESC, avg_similarity_without_worst
\* DESC, categoryPriority DESC, plcRank DESC: row a must come before row b.
SortsBefore(a, b) ==
    LET pa == catalog[a.id]
        pb == catalog[b.id]
        promo(p) == IF p.promoted THEN 1 ELSE 0
    IN  IF promo(pa) # promo(pb) THEN promo(pa) > promo(pb)
        ELSE IF a.avg # b.avg THEN a.avg > b.avg
        ELSE IF a.avgww # b.avgww THEN a.avgww > b.avgww
        ELSE IF pa.priority # pb.priority THEN pa.priority > pb.priority
        ELSE IF plcRank(pa) # plcRank(pb) THEN plcRank(pa) > plcRank(pb)
        ELSE FALSE

\* The orders the ORDER BY allows for a pool of rows: rows that tie on all
\* five keys may come in any order, and each statement picks its own.
SortedOrders(pool) ==
    {ord \in Perms(pool) :
        \A i, j \in DOMAIN ord : i < j => ~SortsBefore(ord[j], ord[i])}

\* const skip = (page - 1) * limit
skip(page, lim) == (page - 1) * lim

\* OFFSET skip LIMIT limit
DataResults(ord, sk, lim) == SubSeq(ord, sk + 1, Min(sk + lim, Len(ord)))

\* UniqueCategoryZones: the distinct zone tags of RankedResults.
UniqueCategoryZones ==
    UNION (UNION {catalog[r.id].zone : r \in RankedResults})

\* A faulty variant: the finish ids of the rows of FinalProductsPool.
FinishesOfFinalPool == UNION {catalog[r.id].finishes : r \in FinalProductsPool}

\* Finishes: the finish ids of the rows of ProductsPool.
Finishes == UNION {catalog[r.id].finishes : r \in ProductsPool}

\* A faulty variant: total_count counts the rows of the page.
QueryResultCountingPage(ord, sk, lim) ==
    [ data |-> DataResults(ord, sk, lim),
      total_count |-> Len(DataResults(ord, sk, lim)),
      zones |-> UniqueCategoryZones,
      finishes |-> Finishes ]

\* The result row of the statement: json_build_object of the page, the size
\* of the pool, the zones and the finishes.
QueryResult(ord, sk, lim) ==
    [ data |-> DataResults(ord, sk, lim),
      total_count |-> Cardinality(FinalProductsPool),
      zones |-> UniqueCategoryZones,
      finishes |-> Finishes ]

\* Math.ceil(total_count / limit)
pagesCount(total, lim) == (total + lim - 1) \div lim

\* The figures of one request: the values the handler returns (data lists the
\* rows of the page), and total_count, which it reads from the result row to
\* compute pagesCount.
HandlerResponse(page, lim, sk, result) ==
    [ page |-> page,
      limit |-> lim,
      skip |-> sk,
      data |-> result.data,
      total_count |-> result.total_count,
      pagesCount |-> pagesCount(result.total_count, lim),
      zones |-> result.zones,
      finishes |-> result.finishes ]

\* The response to the request for one page of the given size, when the
\* statement orders the pool as ord.
Response(ord, page, lim) ==
    HandlerResponse(page, lim, skip(page, lim),
                    QueryResult(ord, skip(page, lim), lim))

\* One request of the endpoint, for the page after the ones fetched so far.
FetchPage ==
    /\ Len(pages) < MaxPages
    /\ \E ord \in SortedOrders(FinalProductsPool) :
           pages' = Append(pages, Response(ord, Len(pages) + 1, limit))
    /\ UNCHANGED <<catalog, limit, zone, finish>>

(* Catalog snapshots *)

Scores(avg, avgww, min, minww) ==
    [avg |-> avg, avgww |-> avgww, min |-> min, minww |-> minww]

\* Scores around the sensitivity threshold: above it, equal to it, and two
\* with avg 0.34 and avg-without-worst 0.40.
ThresholdScores ==
    <<Scores(36, 36, 36, 36), Scores(35, 35, 35, 35),
      Scores(34, 40, 22, 35), Scores(34, 40, 22, 36)>>

\* The products of the tier catalogs: kind 24 is not data-eligible, the others
\* vary in stock eligibility, in how they match and in their scores.
TierProduct(k) ==
    [ dataEligible |-> k < 24,
      stock |-> k % 2 = 1,
      exactHit |-> (k \div 2) % 3 = 2,
      partialHit |-> (k \div 2) % 3 >= 1,
      promoted |-> FALSE,
      simT |-> ThresholdScores[((k \div 6) % 4) + 1],
      simQ |-> ThresholdScores[((k \div 6) % 4) + 1],
      priority |-> 1,
      plc |-> "Normalny",
      zone |-> {},
      finishes |-> {} ]

TierKinds == 0..24

RankScores ==
    <<Scores(36, 36, 36, 36), Scores(36, 40, 36, 40), Scores(40, 40, 40, 40)>>

Lifecycles == <<"Nowosc", "Normalny", "Wycofany">>

\* The products of the ranking catalogs: exact matches that vary in the five
\* ordering keys.
RankProduct(k) ==
    [ dataEligible |-> TRUE,
      stock |-> TRUE,
      exactHit |-> TRUE,
      partialHit |-> FALSE,
      promoted |-> k % 2 = 1,
      simT |-> RankScores[((k \div 2) % 3) + 1],
      simQ |-> RankScores[((k \div 2) % 3) + 1],
      priority |-> ((k \div 6) % 2) + 1,
      plc |-> Lifecycles[((k \div 12) % 3) + 1],
      zone |-> {},
      finishes |-> {} ]

RankKinds == 0..35

\* The catalogs of at most max products of the given kinds.  The rows
\* of a table have no order of their own, so the kinds are listed in
\* non-decreasing order.
RECURSIVE KindListsOfLen(_, _)
KindListsOfLen(kinds, n) ==
    IF n = 0 THEN {<<>>}
    ELSE UNION {{Append(ks, k) : k \in {x \in kinds : n = 1 \/ ks[n - 1] <= x}}
                   : ks \in KindListsOfLen(kinds, n - 1)}

KindLists(kinds, max) == UNION {KindListsOfLen(kinds, n) : n \in 0..max}

SearchInit(products, limits) ==
    /\ catalog \in products
    /\ limit \in limits
    /\ zone = {}
    /\ finish = {}
    /\ pages = <<>>

\* Tier catalogs: the products of a catalog differ in category priority, so
\* no two rows tie in the ORDER BY; every page size.
TierInit ==
    SearchInit({[i \in DOMAIN ks |-> [TierProduct(ks[i]) EXCEPT !.priority = i]]
                   : ks \in KindLists(TierKinds, MaxProducts)},
               1..MaxLimit)

\* Ranking catalogs: rows may tie on every key; every page size.
RankInit ==
    SearchInit({[i \in DOMAIN ks |-> RankProduct(ks[i])]
                   : ks \in KindLists(RankKinds, MaxRankProducts)},
               1..MaxLimit)

\* The products of the facet catalogs: exact or partial matches in stock that
\* vary in their zone tags (NULL, Z1, Z2) and in their finishes (none, F1, F2).
FacetProduct(k) ==
    [ dataEligible |-> TRUE,
      stock |-> TRUE,
      exactHit |-> k % 2 = 1,
      partialHit |-> TRUE,
      promoted |-> FALSE,
      simT |-> Scores(40, 40, 40, 40),
      simQ |-> Scores(40, 40, 40, 40),
      priority |-> 1,
      plc |-> "Normalny",
      zone |-> <<{}, {{"Z1"}}, {{"Z2"}}>>[((k \div 2) % 3) + 1],
      finishes |-> <<{}, {"F1"}, {"F2"}>>[((k \div 6) % 3) + 1] ]

FacetKinds == 0..17

\* The zone and the finish parameter of a request: absent, or one value.
ZoneFilters == {{}, {{"Z1"}}, {{"Z2"}}}

FinishFilters == {{}, {{"F1"}}, {{"F2"}}}

\* Facet catalogs: no two rows tie in the ORDER BY; every page size, every
\* zone and finish filter.
FacetInit ==
    /\ catalog \in {[i \in DOMAIN ks |-> [FacetProduct(ks[i]) EXCEPT !.priority = i]]
                        : ks \in KindLists(FacetKinds, MaxFacetProducts)}
    /\ limit \in 1..MaxLimit
    /\ zone \in ZoneFilters
    /\ finish \in FinishFilters
    /\ pages = <<>>

SearchIdle ==
    /\ catalog = <<>>
    /\ limit = 1
    /\ zone = {}
    /\ finish = {}
    /\ pages = <<>>

-----------------------------------------------------------------------------
(* The name vector of one product: rebuild and concurrent reads *)

\* String.prototype.split(',')
RECURSIVE SplitCommaFrom(_, _, _)
SplitCommaFrom(s, i, cur) ==
    IF i > Len(s) THEN <<cur>>
    ELSE IF s[i] = ","
         THEN <<cur>> \o SplitCommaFrom(s, i + 1, <<>>)
         ELSE SplitCommaFrom(s, i + 1, Append(cur, s[i]))

SplitComma(s) == SplitCommaFrom(s, 1, <<>>)

\* String.prototype.trim()
RECURSIVE Trim(_)
Trim(s) ==
    IF s = <<>> THEN s
    ELSE IF IsSpace(s[1]) THEN Trim(Tail(s))
    ELSE IF IsSpace(s[Len(s)]) THEN Trim(SubSeq(s, 1, Len(s) - 1))
    ELSE s

ToUpperChar(c) ==
    IF c = "a" THEN "A" ELSE IF c = "w" THEN "W" ELSE IF c = "a^" THEN "A^" ELSE c

\* String.prototype.toUpperCase()
ToUpper(s) == [i \in 1..Len(s) |-> ToUpperChar(s[i])]

\* (entries ?? []).flatMap((e) => e[language].split(',').map((value) =>
\*     addWeightToString(value, weight)))
RECURSIVE WeightedList(_, _, _)
WeightedList(entries, language, weight) ==
    IF entries = <<>> THEN <<>>
    ELSE LET values == SplitComma(entries[1][language])
         IN  [i \in 1..Len(values) |-> addWeightToString(values[i], weight)]
                 \o WeightedList(Tail(entries), language, weight)

\* The weighted vector of a product in one language.  A missing translation
\* is the empty string.
buildNameVector(language, product) ==
    LET nameCore == addWeightToString(product.nameCore[language], 13)
        namePost == addWeightToString(product.namePost[language], 8)
        nameFeature1 == addWeightToString(product.nameFeature1[language], 5)
        nameFeature2 == addWeightToString(product.nameFeature2[language], 5)
        collection == addWeightToString(product.collection, 3)
        tags == WeightedList(product.tags, language, 2)
        productFinish == WeightedList(product.productFinish, language, 1)
        texts == SelectSeq(<<nameCore, namePost, nameFeature1, nameFeature2,
                             collection>> \o tags \o productFinish,
                           NonEmpty)
    IN  JoinSpace([i \in 1..Len(texts) |->
                       ToUpper(removeDiacritics(Trim(texts[i])))])

NoText == [l \in Languages |-> <<>>]

\* The contents a product of the catalog takes, one after the other.
VecProducts ==
    {[ nameCore |-> core,
       namePost |-> [l \in Languages |-> IF l = "it" THEN <<"w">> ELSE <<>>],
       nameFeature1 |-> NoText,
       nameFeature2 |-> NoText,
       collection |-> <<"a">>,
       tags |-> tags,
       productFinish |-> <<>> ]
        : core \in {NoText,
                    [l \in Languages |-> <<"a", " ", "w">>],
                    [l \in Languages |-> IF l = "it" THEN <<"a^">> ELSE <<"w", " ">>]},
          tags \in {<<>>, <<[l \in Languages |-> <<"a", ",", "w">>]>>}}

VecInit ==
    /\ vecLang \in Languages
    /\ vecProduct \in VecProducts
    /\ nameVector = buildNameVector(vecLang, vecProduct)
    /\ built = <<>>
    /\ rebuildPc = "idle"
    /\ rebuilds = 0
    /\ stmtPc = "idle"
    /\ statements = 0
    /\ snapshot = <<>>
    /\ ftVector = <<>>
    /\ simVector = <<>>

\* The values of a text field of a product: missing, one word, two words, a
\* word with a diacritic, spaces only, and values with a tab.
FieldValues ==
    {<<>>, <<"w">>, <<"a^", " ", "w">>, <<" ">>, <<"\t">>, <<"a", " ", "\t">>}

\* The values of a tag or finish translation: comma-separated lists.
ListValues == {<<"a", ",", "w", " ", "a">>, <<"a", ",", ",", " ", "w">>}

Translated(value) == [l \in Languages |-> IF l = "it" THEN value ELSE <<>>]

\* The lists of at most MaxListEntries tags or finishes.
EntryLists == SeqsUpTo({Translated(v) : v \in ListValues}, MaxListEntries)

\* The products buildNameVector is given: translated in Italian only.
BuildProducts ==
    {[ nameCore |-> Translated(core),
       namePost |-> Translated(post),
       nameFeature1 |-> Translated(feature),
       nameFeature2 |-> Translated(<<"w">>),
       collection |-> coll,
       tags |-> tags,
       productFinish |-> fin ]
        : core \in FieldValues, post \in FieldValues,
          feature \in {<<>>, <<"a">>}, coll \in {<<>>, <<"a^">>},
          tags \in EntryLists, fin \in EntryLists}

BuildInit ==
    /\ vecLang \in Languages
    /\ vecProduct \in BuildProducts
    /\ nameVector = <<>>
    /\ built = <<>>
    /\ rebuildPc = "changed"
    /\ rebuilds = 0
    /\ stmtPc = "off"
    /\ statements = 0
    /\ snapshot = <<>>
    /\ ftVector = <<>>
    /\ simVector = <<>>

VecIdle ==
    /\ vecLang = "it"
    /\ vecProduct = <<>>
    /\ nameVector = <<>>
    /\ built = <<>>
    /\ rebuildPc = "off"
    /\ rebuilds = 0
    /\ stmtPc = "off"
    /\ statements = 0
    /\ snapshot = <<>>
    /\ ftVector = <<>>
    /\ simVector = <<>>

\* A contributing field of the product changes, which triggers the rebuild.
ChangeProduct ==
    /\ rebuildPc = "idle"
    /\ rebuilds < MaxRebuilds
    /\ vecProduct' \in VecProducts \ {vecProduct}
    /\ rebuildPc' = "changed"
    /\ rebuilds' = rebuilds + 1
    /\ UNCHANGED <<vecLang, nameVector, built, stmtPc, statements, snapshot,
                   ftVector, simVector>>

\* The rebuild computes the new vector; buildNameVector returns it whole.
BuildVector ==
    /\ rebuildPc = "changed"
    /\ built' = buildNameVector(vecLang, vecProduct)
    /\ rebuildPc' = "built"
    /\ UNCHANGED <<vecLang, vecProduct, nameVector, rebuilds, stmtPc,
                   statements, snapshot, ftVector, simVector>>

\* The rebuild publishes the new vector: one committed write of the column.
PublishVector ==
    /\ rebuildPc = "built"
    /\ nameVector' = built
    /\ built' = <<>>
    /\ rebuildPc' = "idle"
    /\ UNCHANGED <<vecLang, vecProduct, rebuilds, stmtPc, statements,
                   snapshot, ftVector, simVector>>

\* The column as a read of the running statement sees it, if every read of
\* the statement looked at the table as it is at that moment.
ReadLatestVector == nameVector

\* The column as a read of the running statement sees it: the reads belong
\* to the one statement of $queryRaw, which the database evaluates against
\* the rows committed when the statement began.
ReadVector == snapshot

\* prisma.$queryRaw sends the statement; the database begins to evaluate it.
BeginStatement ==
    /\ stmtPc = "idle"
    /\ statements < MaxStatements
    /\ snapshot' = nameVector
    /\ statements' = statements + 1
    /\ stmtPc' = "fulltext"
    /\ UNCHANGED <<vecLang, vecProduct, nameVector, built, rebuildPc,
                   rebuilds, ftVector, simVector>>

\* FilteredQueryBeforeCheck: to_tsvector('simple', nv.langField) @@ tsQuery,
\* the match that decides the tier.
ReadFullText ==
    /\ stmtPc = "fulltext"
    /\ ftVector' = ReadVector
    /\ stmtPc' = "similarity"
    /\ UNCHANGED <<vecLang, vecProduct, nameVector, built, rebuildPc,
                   rebuilds, statements, snapshot, simVector>>

\* ExactAndPartialMatches / SimilarityMatches: the vector handed to
\* average_highest_similarity.
ReadSimilarity ==
    /\ stmtPc = "similarity"
    /\ simVector' = ReadVector
    /\ stmtPc' = "done"
    /\ UNCHANGED <<vecLang, vecProduct, nameVector, built, rebuildPc,
                   rebuilds, statements, snapshot, ftVector>>

\* The statement returns its row.
EndStatement ==
    /\ stmtPc = "done"
    /\ stmtPc' = "idle"
    /\ snapshot' = <<>>
    /\ ftVector' = <<>>
    /\ simVector' = <<>>
    /\ UNCHANGED <<vecLang, vecProduct, nameVector, built, rebuildPc,
                   rebuilds, statements>>

-----------------------------------------------------------------------------
(* Concurrent requests of the endpoint *)

Requests == {"r1", "r2"}

\* The scope the locals of an invocation would live in if the handler kept
\* them in variables of the module.
ModuleScope(r) == "r1"

\* The scope the locals of an invocation live in: page, limit and skip are
\* const bindings of the handler's body, one set for every invocation.
HandlerScope(r) == r

Events == [page : 1..MaxPages, limit : 1..MaxLimit]

\* The products of the catalogs of the concurrent requests: exact matches,
\* promoted or not, with one of two scores.
ParKinds == 0..3

ParInit ==
    /\ SearchInit({[i \in DOMAIN ks |-> RankProduct(ks[i])]
                      : ks \in KindLists(ParKinds, MaxRankProducts)},
                  {1})
    /\ event \in [Requests -> Events]
    /\ reqPc = [r \in Requests |-> "received"]
    /\ scope = [r \in Requests |-> [page |-> 1, limit |-> 1, skip |-> 0]]
    /\ statement = [r \in Requests |-> {}]
    /\ reply = [r \in Requests |-> {}]
    /\ response = [r \in Requests |-> {}]

ParIdle ==
    /\ event = <<>>
    /\ reqPc = <<>>
    /\ scope = <<>>
    /\ statement = <<>>
    /\ reply = <<>>
    /\ response = <<>>

\* getValidatedQuery resolves: the handler binds page and limit, computes
\* skip and the query strings, and sends the statement.
Prepare(r) ==
    /\ reqPc[r] = "received"
    /\ LET s == HandlerScope(r)
           sk == skip(event[r].page, event[r].limit)
       IN  /\ scope' = [scope EXCEPT ![s] = [page |-> event[r].page,
                                             limit |-> event[r].limit,
                                             skip |-> sk]]
           /\ statement' = [statement EXCEPT
                               ![r] = {[skip |-> scope'[s].skip,
                                        limit |-> scope'[s].limit]}]
    /\ reqPc' = [reqPc EXCEPT ![r] = "querying"]
    /\ UNCHANGED <<event, reply, response>>

\* The database evaluates the statement of a request against the catalog.
Execute(r) ==
    /\ reqPc[r] = "querying"
    /\ \E st \in statement[r] :
       \E ord \in SortedOrders(FinalProductsPool) :
           reply' = [reply EXCEPT ![r] = {QueryResult(ord, st.skip, st.limit)}]
    /\ statement' = [statement EXCEPT ![r] = {}]
    /\ reqPc' = [reqPc EXCEPT ![r] = "replied"]
    /\ UNCHANGED <<event, scope, response>>

\* $queryRaw resolves: the handler computes pagesCount and returns.
Respond(r) ==
    /\ reqPc[r] = "replied"
    /\ LET s == scope[HandlerScope(r)]
       IN  response' = [response EXCEPT
                           ![r] = {HandlerResponse(s.page, s.limit, s.skip, res)
                                      : res \in reply[r]}]
    /\ reply' = [reply EXCEPT ![r] = {}]
    /\ reqPc' = [reqPc EXCEPT ![r] = "done"]
    /\ UNCHANGED <<event, scope, statement>>

-----------------------------------------------------------------------------
(* Properties of the preprocessing *)

\* t0, t0_t1, t1, t1_t2, ..., tn: entry 2k-1 is token k, entry 2k joins
\* tokens k and k+1.
ExpectedPerfectCodes(toks) ==
    [k \in 1..(2 * Len(toks) - 1) |->
        IF k % 2 = 1 THEN toks[(k + 1) \div 2]
        ELSE toks[k \div 2] \o <<"_">> \o toks[k \div 2 + 1]]

\* C6: the perfect-code candidate list of tokens [t0,...,tn] is exactly
\* t0, t0_t1, t1, ..., tn (2n+1 entries), no adjacent pair skipped.
CompoundCodesComplete ==
    tokPc = "done" => perfectCodes = ExpectedPerfectCodes(splitQ)

\* The tokens the connector trimming works on, and the indices it keeps.
RawTokens == SplitSpace(qRaw)

KeptIndices ==
    {i \in 1..Len(RawTokens) :
        \/ i = 1
        \/ i = Len(RawTokens)
        \/ ToLower(RawTokens[i]) \notin PREPOSITIONS[lang]}

\* C8: with at least two tokens, the first and the last token survive the
\* connector trimming even when they are connector words, exactly the interior
\* connector words (compared case-insensitively) are removed, and the
\* remaining tokens keep their order.
ConnectorTrimmingPreservesEndpoints ==
    (tokPc = "done" /\ Len(RawTokens) >= 2) =>
        LET out == SplitSpace(q)
            n == Len(RawTokens)
        IN  /\ Len(out) = Cardinality(KeptIndices)
            /\ out[1] = removeDiacritics(RawTokens[1])
            /\ out[Len(out)] = removeDiacritics(RawTokens[n])
            /\ \A i \in KeptIndices :
                   out[Cardinality({j \in KeptIndices : j <= i})]
                       = removeDiacritics(RawTokens[i])

\* A query of three connector words: only the interior one is removed.
ConnectorEndpointsWitness ==
    /\ tokPc = "done"
    /\ lang = "it"
    /\ qRaw = <<"a", " ", "A", " ", "a">>
    /\ q = <<"a", " ", "a">>

\* The terms of a full-text expression: the parts between " | ".
RECURSIVE OrTermsFrom(_, _, _)
OrTermsFrom(s, i, cur) ==
    IF i > Len(s) THEN <<cur>>
    ELSE IF i + 2 <= Len(s) /\ s[i] = " " /\ s[i + 1] = "|" /\ s[i + 2] = " "
         THEN <<cur>> \o OrTermsFrom(s, i + 3, <<>>)
         ELSE OrTermsFrom(s, i + 1, Append(cur, s[i]))

OrTerms(s) == IF s = <<>> THEN <<>> ELSE OrTermsFrom(s, 1, <<>>)

\* The word characters of a token, in order.
WordChars(t) == SelectSeq(t, LAMBDA c : c \notin {"-", "a^", " ", ","})

\* The tokens of splitQ that have a word character, by index.
TermIndices == {i \in 1..Len(splitQ) : WordChars(splitQ[i]) # <<>>}

\* The expression has one term for every token with a word character, in
\* token order: the word characters of a long token without the last one,
\* followed by ":*"; those of a short token, followed by shortMarker.
ExpressionIs(shortMarker) ==
    LET terms == OrTerms(tsQuery)
    IN  /\ Len(terms) = Cardinality(TermIndices)
        /\ \A i \in TermIndices :
               LET w == WordChars(splitQ[i])
                   k == Cardinality({j \in TermIndices : j <= i})
               IN  terms[k] = IF Len(w) > 3
                              THEN SubSeq(w, 1, Len(w) - 1) \o <<":", "*">>
                              ELSE w \o shortMarker

\* C12 as stated: a token of at most three characters is used verbatim,
\* without a wildcard marker.
FullTextExpressionVerbatim == tokPc = "done" => ExpressionIs(<<>>)

\* C12: the full-text expression takes each token with the non-word
\* characters stripped and the empty results dropped; a token longer than 3
\* characters loses its last character, and every token, also one of at most
\* 3 characters, gets the prefix marker ":*"; the terms are joined with " | "
\* in token order.
FullTextExpression == tokPc = "done" => ExpressionIs(<<":", "*">>)

\* Two short tokens around one that is stripped to nothing.
FullTextExpressionWitness ==
    /\ tokPc = "done"
    /\ qRaw = <<"a", ",", "-", ",", "w">>
    /\ tsQuery = <<"a", ":", "*", " ", "|", " ", "w", ":", "*">>

-----------------------------------------------------------------------------
(* Properties of the weighted tokens *)

DigitValue(c) == CASE c = "0" -> 0 [] c = "1" -> 1 [] c = "2" -> 2 [] c = "3" -> 3
                   [] c = "4" -> 4 [] c = "5" -> 5 [] c = "6" -> 6 [] c = "7" -> 7
                   [] c = "8" -> 8 [] c = "9" -> 9

RECURSIVE ParseNumber(_)
ParseNumber(ds) ==
    IF Len(ds) = 0 THEN 0
    ELSE 10 * ParseNumber(SubSeq(ds, 1, Len(ds) - 1)) + DigitValue(ds[Len(ds)])

\* The position of the first ":" of a serialized entry.
ColonAt(e) == CHOOSE i \in 1..Len(e) : e[i] = ":" /\ \A j \in 1..(i - 1) : e[j] # ":"

EntryWeight(e) == ParseNumber(SubSeq(e, 1, ColonAt(e) - 1))

EntryToken(e) == SubSeq(e, ColonAt(e) + 1, Len(e))

\* The entries of the string addWeightToString returned.
EmittedEntries == IF wOut = <<>> THEN <<>> ELSE SplitSpace(wOut)

FieldTokens == SelectSeq(SplitSpace(wValue), NonEmpty)

\* C7: the n-th non-empty token of a field (n from 0) gets the weight
\* max(base - n, 1); weights never increase along the field and never fall
\* below 1.
WeightMonotonicity ==
    wPc = "done" =>
        /\ Len(EmittedEntries) = Len(FieldTokens)
        /\ \A n \in 1..Len(EmittedEntries) :
               /\ EntryWeight(EmittedEntries[n]) = Max(wWeight - (n - 1), 1)
               /\ EntryToken(EmittedEntries[n]) = FieldTokens[n]
               /\ EntryWeight(EmittedEntries[n]) >= 1
               /\ n > 1 => EntryWeight(EmittedEntries[n])
                               <= EntryWeight(EmittedEntries[n - 1])

\* A field of three tokens at base weight 2: the weights are 2, 1, 1.
WeightFloorWitness ==
    /\ wPc = "done"
    /\ wWeight = 2
    /\ Len(EmittedEntries) = 3
    /\ EntryWeight(EmittedEntries[1]) = 2
    /\ EntryWeight(EmittedEntries[2]) = 1
    /\ EntryWeight(EmittedEntries[3]) = 1

\* The words of a field value that are not blank, in order.
FieldWords(value) ==
    SelectSeq(SplitSpace(value), LAMBDA word : Trim(word) # <<>>)

\* The entries the claim gives a field value of base weight weight.
FieldEntries(value, weight) ==
    LET words == FieldWords(value)
    IN  [i \in 1..Len(words) |->
            NumberToString(Max(weight - (i - 1), 1)) \o <<":">>
                \o ToUpper(removeDiacritics(words[i]))]

\* The same for every comma-separated value of every tag or finish.
RECURSIVE ListEntries(_, _, _)
ListEntries(entries, language, weight) ==
    IF entries = <<>> THEN <<>>
    ELSE LET values == SplitComma(entries[1][language])
             RECURSIVE each(_)
             each(i) == IF i > Len(values) THEN <<>>
                        ELSE FieldEntries(values[i], weight) \o each(i + 1)
         IN  each(1) \o ListEntries(Tail(entries), language, weight)

ExpectedEntries(language, product) ==
    FieldEntries(product.nameCore[language], 13)
        \o FieldEntries(product.namePost[language], 8)
        \o FieldEntries(product.nameFeature1[language], 5)
        \o FieldEntries(product.nameFeature2[language], 5)
        \o FieldEntries(product.collection, 3)
        \o ListEntries(product.tags, language, 2)
        \o ListEntries(product.productFinish, language, 1)

\* C21: the vector is the entries weight:TOKEN of the words of core name,
\* secondary name, feature 1, feature 2, collection name, tag values and
\* finish values, in that order, upper-cased and without diacritics; a
\* missing, empty or blank field leaves no entry.
VectorConstruction ==
    rebuildPc = "built" => built = JoinSpace(ExpectedEntries(vecLang, vecProduct))

-----------------------------------------------------------------------------
(* Properties of the search query *)

\* The tier of a product for the query: 2 Exact, 1 Partial, 0 neither.
Tier(i) == exactMatchPriority(catalog[i])

\* The candidate set the query-wide tier decision is taken over: the
\* data-eligible products that pass the stock policy.
Candidates ==
    {i \in ProductIds :
        catalog[i].dataEligible /\ (catalog[i].stock \/ Tier(i) = 2)}

CandidateTiers == {Tier(i) : i \in Candidates}

\* The products on the k-th page, and on all the pages fetched so far.
OnPage(k) == {r.id : r \in Range(pages[k].data)}

Returned == UNION {OnPage(k) : k \in DOMAIN pages}

\* Every page of the result has been fetched.
AllPagesFetched ==
    Len(pages) >= 1 /\ Len(pages) * limit >= pages[1].total_count

\* C1: if a candidate is Exact the result set holds only Exact items;
\* otherwise, if a candidate is Partial, it holds only Partial items; items of
\* tier 0, admitted by similarity, appear only when no candidate is Exact or
\* Partial.
TierExclusivity ==
    /\ 2 \in CandidateTiers => \A i \in Returned : Tier(i) = 2
    /\ (2 \notin CandidateTiers /\ 1 \in CandidateTiers)
           => \A i \in Returned : Tier(i) = 1
    /\ \A i \in Returned : Tier(i) = 0 => CandidateTiers \cap {1, 2} = {}

\* An Exact, a Partial and a fuzzy-admissible product, all in stock: only the
\* Exact one is returned.
TierExclusivityWitness ==
    /\ AllPagesFetched
    /\ \E e, p, f \in Candidates :
           /\ Tier(e) = 2 /\ Tier(p) = 1 /\ Tier(f) = 0
           /\ catalog[p].stock /\ catalog[f].stock
           /\ catalog[f].simQ.min > PRODUCTS_QUERY_SENSITIVITY
           /\ Returned = {e}

\* C2: a stock-ineligible item appears in the result set, on any page, only
\* if its tier is Exact.
StockBypass ==
    \A i \in Returned : ~catalog[i].stock => Tier(i) = 2

\* A stock-ineligible Exact product is on the first page; a stock-ineligible
\* Partial one is on no page.
StockBypassWitness ==
    /\ AllPagesFetched
    /\ \E e, p \in ProductIds :
           /\ catalog[e].dataEligible /\ catalog[p].dataEligible
           /\ ~catalog[e].stock /\ ~catalog[p].stock
           /\ Tier(e) = 2 /\ Tier(p) = 1
           /\ e \in OnPage(1)
           /\ p \notin Returned

\* The stock-eligible, data-eligible products of a query without Exact or
\* Partial candidates: the ones the fuzzy tier decides on.
FuzzyCandidates ==
    IF CandidateTiers \cap {1, 2} # {} THEN {}
    ELSE {i \in ProductIds : catalog[i].dataEligible /\ catalog[i].stock}

\* C3 as stated: a fuzzy candidate is admitted iff its avg_similarity or its
\* avg_similarity_without_worst is strictly greater than the threshold.
FuzzyThresholdOnAverages ==
    \A i \in FuzzyCandidates :
        LET above == \/ catalog[i].simQ.avg > PRODUCTS_QUERY_SENSITIVITY
                     \/ catalog[i].simQ.avgww > PRODUCTS_QUERY_SENSITIVITY
        IN  /\ i \in Returned => above
            /\ (AllPagesFetched /\ above) => i \in Returned

\* C3 as amended: a fuzzy candidate is admitted iff its min_similarity or its
\* min_similarity_without_worst is strictly greater than the threshold; a
\* score equal to the threshold does not admit.
FuzzyThresholdOnMinima ==
    \A i \in FuzzyCandidates :
        LET above == \/ catalog[i].simQ.min > PRODUCTS_QUERY_SENSITIVITY
                     \/ catalog[i].simQ.minww > PRODUCTS_QUERY_SENSITIVITY
        IN  /\ i \in Returned => above
            /\ (AllPagesFetched /\ above) => i \in Returned

\* One product scores exactly the threshold and is left out, another exceeds
\* it only without its worst term and is returned.
FuzzyThresholdWitness ==
    /\ AllPagesFetched
    /\ \E a, b \in FuzzyCandidates :
           /\ catalog[a].simQ.min = PRODUCTS_QUERY_SENSITIVITY
           /\ catalog[a].simQ.minww = PRODUCTS_QUERY_SENSITIVITY
           /\ a \notin Returned
           /\ catalog[b].simQ.min < PRODUCTS_QUERY_SENSITIVITY
           /\ catalog[b].simQ.minww > PRODUCTS_QUERY_SENSITIVITY
           /\ b \in Returned

RECURSIVE ConcatPages(_)
ConcatPages(k) ==
    IF k = 0 THEN <<>>
    ELSE ConcatPages(k - 1) \o [n \in DOMAIN pages[k].data |-> pages[k].data[n].id]

\* C4: the pages 1..k fetched one request after the other, concatenated, are
\* the first k*limit items of one unpaginated ordering, each item once.
PaginationIdempotence ==
    \E ord \in SortedOrders(FinalProductsPool) :
        ConcatPages(Len(pages))
            = [n \in 1..Min(Len(pages) * limit, Len(ord)) |-> ord[n].id]

\* New > Normal > Other
LifecycleRank(p) ==
    IF p.plc = "Nowosc" THEN 2 ELSE IF p.plc = "Normalny" THEN 1 ELSE 0

\* The key tuple of a row: promoted-code flag, avg_similarity,
\* avg_similarity_without_worst, category priority, lifecycle rank.
KeyTuple(r) ==
    <<IF catalog[r.id].promoted THEN 1 ELSE 0, r.avg, r.avgww,
      catalog[r.id].priority, LifecycleRank(catalog[r.id])>>

RECURSIVE LexGE(_, _)
LexGE(s, t) ==
    \/ Len(s) = 0
    \/ s[1] > t[1]
    \/ s[1] = t[1] /\ LexGE(Tail(s), Tail(t))

PartialOnlyOutOfStock ==
    /\ \A i \in ProductIds : catalog[i].dataEligible => Tier(i) # 2
    /\ \E i \in ProductIds : catalog[i].dataEligible /\ Tier(i) = 1
    /\ \A i \in ProductIds :
           (catalog[i].dataEligible /\ Tier(i) = 1) => ~catalog[i].stock

\* The in-stock items whose similarity to the query is above the threshold.
InStockFuzzy ==
    {i \in ProductIds :
        /\ catalog[i].dataEligible
        /\ catalog[i].stock
        /\ \/ catalog[i].simQ.min > PRODUCTS_QUERY_SENSITIVITY
           \/ catalog[i].simQ.minww > PRODUCTS_QUERY_SENSITIVITY}

\* C22: when no item is Exact and every Partial item is stock-ineligible,
\* the tier flags do not see the Partial items: the pages hold the in-stock
\* fuzzy matches, all of them and nothing else.
StockBeforeTierDecision ==
    PartialOnlyOutOfStock =>
        /\ \A k \in DOMAIN pages :
               /\ OnPage(k) \subseteq InStockFuzzy
               /\ pages[k].total_count = Cardinality(InStockFuzzy)
        /\ AllPagesFetched => Returned = InStockFuzzy

\* A stock-ineligible Partial item and an in-stock item above the threshold:
\* the fuzzy one is the result.
StockBeforeTierDecisionWitness ==
    /\ PartialOnlyOutOfStock
    /\ AllPagesFetched
    /\ Cardinality(InStockFuzzy) = 1
    /\ Returned = InStockFuzzy
    /\ \A i \in Returned : Tier(i) = 0

\* The items the tier decision selects among the candidates: those of the
\* highest tier present, or the fuzzy-admissible ones when no candidate is
\* Exact or Partial.
SelectedItems ==
    IF 2 \in CandidateTiers THEN {i \in Candidates : Tier(i) = 2}
    ELSE IF 1 \in CandidateTiers THEN {i \in Candidates : Tier(i) = 1}
    ELSE {i \in Candidates : AboveSensitivity(catalog[i].simQ)}

\* The item has a zone tag the request asks for, or the request names no zone.
PassesZone(i) ==
    zone = {} \/ \E z \in catalog[i].zone, want \in zone : z \cap want # {}

\* The item has a finish the request asks for, or the request names no finish.
PassesFinish(i) ==
    finish = {} \/ \E want \in finish : catalog[i].finishes \cap want # {}

\* The items total_count counts: selected, and through both filters.
CountedItems == {i \in SelectedItems : PassesZone(i) /\ PassesFinish(i)}

ZoneTags(S) == {t \in {"Z1", "Z2"} : \E i \in S : \E z \in catalog[i].zone : t \in z}

FinishIds(S) == {f \in {"F1", "F2"} : \E i \in S : f \in catalog[i].finishes}

\* C14 as stated: both facets of every response are taken over the items
\* that total_count counts.
FacetsOfCountedPool ==
    \A k \in DOMAIN pages :
        /\ pages[k].zones = ZoneTags(CountedItems)
        /\ pages[k].finishes = FinishIds(CountedItems)

\* C14: on every page and for every limit, the zone facet is taken over the
\* selected items before the zone and finish filters, and the finish facet
\* over the selected items that pass the zone filter, before the finish
\* filter.
FacetPools ==
    \A k \in DOMAIN pages :
        /\ pages[k].zones = ZoneTags(SelectedItems)
        /\ pages[k].finishes = FinishIds({i \in SelectedItems : PassesZone(i)})

\* Two pages of a request with both filters that no item passes: the zone
\* facet has the tags of both items, the finish facet the finish of the item
\* that passes the zone filter.
FacetPoolsWitness ==
    /\ Len(pages) = 2
    /\ zone = {{"Z1"}}
    /\ finish = {{"F1"}}
    /\ pages[2].total_count = 0
    /\ pages[2].zones = {"Z1", "Z2"}
    /\ pages[2].finishes = {"F2"}

\* C23: with a zone filter every returned item has zone tags, one of them
\* requested; with a finish filter every returned item has a requested
\* finish; an absent filter removes nothing; and the returned items are the
\* items of the tier the candidates decide, filtered, so a filter never
\* brings in another tier.
FiltersAfterTierDecision ==
    /\ \A i \in Returned :
           /\ zone # {} =>
                  /\ catalog[i].zone # {}
                  /\ \E z \in catalog[i].zone, want \in zone : z \cap want # {}
           /\ finish # {} =>
                  \E want \in finish : catalog[i].finishes \cap want # {}
           /\ i \in SelectedItems
    /\ AllPagesFetched =>
           /\ Returned = CountedItems
           /\ (zone = {} /\ finish = {}) => Returned = SelectedItems

\* An Exact item without the requested zone and a Partial item with it: the
\* result is empty, the Partial item is not brought in.
FiltersAfterTierDecisionWitness ==
    /\ AllPagesFetched
    /\ zone = {{"Z1"}}
    /\ Returned = {}
    /\ \E e, p \in ProductIds :
           /\ Tier(e) = 2 /\ catalog[e].zone = {}
           /\ Tier(p) = 1 /\ catalog[p].zone = {{"Z1"}}
           /\ SelectedItems = {e}

\* C15: total_count is the number of selected items that pass both filters,
\* on every page; a page past the last one has no rows; pagesCount is the
\* least number of pages of limit rows that hold total_count rows.
Counts ==
    \A k \in DOMAIN pages :
        /\ pages[k].total_count = Cardinality(CountedItems)
        /\ pages[k].total_count = pages[1].total_count
        /\ (k - 1) * limit >= pages[k].total_count => pages[k].data = <<>>
        /\ pages[k].pagesCount * limit >= pages[k].total_count
        /\ pages[k].pagesCount = 0
               \/ (pages[k].pagesCount - 1) * limit < pages[k].total_count

\* The second page of a one-page result under a zone filter that leaves one
\* of two rows: no rows, total_count still 1.
CountsWitness ==
    /\ Len(pages) = 2
    /\ zone # {}
    /\ Cardinality(SelectedItems) = 2
    /\ pages[1].total_count = 1
    /\ pages[1].pagesCount = 1
    /\ pages[2].data = <<>>
    /\ pages[2].total_count = 1

-----------------------------------------------------------------------------
(* What the statement reads of a concrete product: code comparisons, the   *)
(* full-text match and the similarity scores.                              *)
(*                                                                         *)
(* An item is a row of Product with what the statement joins to it:        *)
(*   ean, vector   nullable: {} is NULL, {s} the string s; vector is the   *)
(*                 Translation column of the request language, NULL also   *)
(*                 when nameVectorId finds no row                          *)
(*   code          the internal code, a string                             *)
(***************************************************************************)

\* value = ANY(list); NULL = ANY(...) is not true.
EqualsAny(value, list) == \E v \in value : \E i \in DOMAIN list : list[i] = v

\* s LIKE pattern: "%" stands for any string, "_" for any one character.
RECURSIVE Like(_, _)
Like(s, pattern) ==
    IF pattern = <<>> THEN s = <<>>
    ELSE IF pattern[1] = "%"
         THEN Like(s, Tail(pattern)) \/ (s # <<>> /\ Like(Tail(s), pattern))
    ELSE IF s = <<>> THEN FALSE
    ELSE (pattern[1] = "_" \/ pattern[1] = s[1]) /\ Like(Tail(s), Tail(pattern))

\* code LIKE ANY(patterns)
LikeAny(s, patterns) == \E i \in DOMAIN patterns : Like(s, patterns[i])

\* lower() of the database, for the letters of the alphabets.
LowerChar(c) == IF c = "A" THEN "a" ELSE IF c = "W" THEN "w" ELSE c

Lower(s) == [i \in 1..Len(s) |-> LowerChar(s[i])]

IsAlnum(c) ==
    c \in {"a", "A", "w", "W", "0", "1", "2", "3", "4", "5", "6", "7", "8", "9"}

\* The maximal runs of letters and digits of a text, in order.
RECURSIVE AlnumRunsFrom(_, _, _)
AlnumRunsFrom(s, i, cur) ==
    IF i > Len(s) THEN (IF cur = <<>> THEN <<>> ELSE <<cur>>)
    ELSE IF IsAlnum(s[i]) THEN AlnumRunsFrom(s, i + 1, Append(cur, s[i]))
    ELSE (IF cur = <<>> THEN <<>> ELSE <<cur>>) \o AlnumRunsFrom(s, i + 1, <<>>)

AlnumRuns(s) == AlnumRunsFrom(s, 1, <<>>)

\* to_tsvector('simple', text): the lower-cased words and numbers of the
\* text, in their positions.
to_tsvector(text) ==
    LET runs == AlnumRuns(text)
    IN  [i \in 1..Len(runs) |-> Lower(runs[i])]

\* The operands of the | of an expression.
RECURSIVE OrOperandsFrom(_, _, _)
OrOperandsFrom(s, i, cur) ==
    IF i > Len(s) THEN <<cur>>
    ELSE IF s[i] = "|" THEN <<cur>> \o OrOperandsFrom(s, i + 1, <<>>)
    ELSE OrOperandsFrom(s, i + 1, Append(cur, s[i]))

\* to_tsquery('simple', expression) for the expressions tsQuery takes: one
\* phrase for every operand of |, its lower-cased words in order (a term
\* with an underscore is a phrase of several words), the last word of a
\* phrase a prefix; none for the empty string.
to_tsquery(expression) ==
    {to_tsvector(operand) : operand \in Range(OrOperandsFrom(expression, 1, <<>>))}
        \ {<<>>}

IsPrefix(p, s) == Len(p) <= Len(s) /\ SubSeq(s, 1, Len(p)) = p

\* The phrase stands in the lexemes from position p on.
PhraseAt(phrase, lexemes, p) ==
    /\ p + Len(phrase) - 1 <= Len(lexemes)
    /\ \A k \in 1..(Len(phrase) - 1) : lexemes[p + k - 1] = phrase[k]
    /\ IsPrefix(phrase[Len(phrase)], lexemes[p + Len(phrase) - 1])

\* to_tsvector('simple', text) @@ to_tsquery('simple', expression); NULL
\* text does not match.
FullTextMatch(vector, expression) ==
    \E text \in vector :
        LET lexemes == to_tsvector(text)
        IN  \E phrase \in to_tsquery(expression), p \in DOMAIN lexemes :
                PhraseAt(phrase, lexemes, p)

\* The trigrams of pg_trgm: every word, lower-cased, with two spaces before
\* and one after it, cut into windows of three characters.
Trigrams(s) ==
    UNION {LET padded == <<" ", " ">> \o Lower(w) \o <<" ">>
           IN  {SubSeq(padded, i, i + 2) : i \in 1..(Len(padded) - 2)}
              : w \in Range(AlnumRuns(s))}

\* similarity(a, b) of pg_trgm, in hundredths: shared trigrams over all.
similarity(a, b) ==
    LET ta == Trigrams(a)
        tb == Trigrams(b)
    IN  IF ta \cup tb = {} THEN 0
        ELSE (100 * Cardinality(ta \cap tb)) \div Cardinality(ta \cup tb)

-----------------------------------------------------------------------------
(* average_highest_similarity *)

\* The entries of a vector text, "<weight>:<WORD>" separated by spaces, as
\* the loop reads them: tsvector_word and tsvector_weight.
tsvector_entries(text) ==
    LET parts == SelectSeq(SplitSpace(text), NonEmpty)
    IN  [i \in 1..Len(parts) |->
            [word |-> EntryToken(parts[i]), weight |-> EntryWeight(parts[i])]]

\* The words of the query string.
query_words(query) == IF query = <<>> THEN <<>> ELSE SplitSpace(query)

\* The inner FOREACH: the entries in order, a later entry replaces the best
\* one only if it is strictly better.  max_similarity starts at 0 and
\* max_similarity_word keeps the value the previous query word left.
RECURSIVE InnerLoop(_, _, _, _, _)
InnerLoop(query_word, entries, i, max_similarity, max_similarity_word) ==
    IF i > Len(entries)
    THEN [max_similarity |-> max_similarity,
          max_similarity_word |-> max_similarity_word]
    ELSE LET current_similarity ==
                 similarity(query_word, entries[i].word) + entries[i].weight
         IN  IF current_similarity > max_similarity
             THEN InnerLoop(query_word, entries, i + 1, current_similarity,
                            {entries[i].word})
             ELSE InnerLoop(query_word, entries, i + 1, max_similarity,
                            max_similarity_word)

\* A faulty variant: the matched word stays in the array.
array_keep(entries, word) == entries

\* array_remove(tsvector_entries, max_similarity_word): every entry of that
\* word goes; a NULL word removes nothing.
array_remove(entries, word) ==
    SelectSeq(entries, LAMBDA e : e.word \notin word)

\* The outer FOREACH from the k-th query word on: the per-word maxima.
RECURSIVE HighestSimilarities(_, _, _, _)
HighestSimilarities(words, k, entries, max_similarity_word) ==
    IF k > Len(words) THEN <<>>
    ELSE LET best == InnerLoop(words[k], entries, 1, 0, max_similarity_word)
         IN  <<best.max_similarity>>
                 \o HighestSimilarities(words, k + 1,
                        array_remove(entries, best.max_similarity_word),
                        best.max_similarity_word)

RECURSIVE Sum(_)
Sum(ns) == IF Len(ns) = 0 THEN 0 ELSE ns[1] + Sum(Tail(ns))

RECURSIVE Lowest(_)
Lowest(ns) == IF Len(ns) = 1 THEN ns[1] ELSE Min(ns[1], Lowest(Tail(ns)))

\* The maxima without one occurrence of the lowest.
RECURSIVE WithoutWorst(_)
WithoutWorst(ns) ==
    IF ns[1] = Lowest(ns) THEN Tail(ns) ELSE <<ns[1]>> \o WithoutWorst(Tail(ns))

\* The four figures of a list of maxima; all 0 for no query word, and the
\* figures "without worst" of a single maximum are those of the maximum.
Figures(ns) ==
    IF Len(ns) = 0 THEN Scores(0, 0, 0, 0)
    ELSE LET rest == IF Len(ns) = 1 THEN ns ELSE WithoutWorst(ns)
         IN  Scores(Sum(ns) \div Len(ns), Sum(rest) \div Len(rest),
                    Lowest(ns), Lowest(rest))

\* average_highest_similarity(vector text, query string); the similarity of
\* a NULL vector text is 0.
average_highest_similarity(vector, query) ==
    IF vector = {} THEN Scores(0, 0, 0, 0)
    ELSE LET text == CHOOSE t \in vector : TRUE
         IN  Figures(HighestSimilarities(query_words(query), 1,
                                         tsvector_entries(text), {}))

ScoreChars == {"a", "w", " "}

\* The entries of the scored vectors.
ScoreEntries ==
    {<<"1", "3", ":", "A">>, <<"2", ":", "A">>, <<"1", ":", "A", "W">>,
     <<"1", "2", ":", "W">>, <<"1", ":", "A", "A", "W">>}

ScoreVectors == {JoinSpace(es) : es \in SeqsUpTo(ScoreEntries, MaxEntries)}

ScoreInit ==
    /\ scQuery \in (SeqsUpTo(ScoreChars, MaxScoreQueryLen) \ {<<>>})
    /\ scVector \in ScoreVectors
    /\ scEntries = tsvector_entries(scVector)
    /\ scIndex = 1
    /\ scMaxWord = {}
    /\ scMatches = <<>>

ScoreIdle ==
    /\ scQuery = <<>>
    /\ scVector = <<>>
    /\ scEntries = <<>>
    /\ scIndex = 0
    /\ scMaxWord = {}
    /\ scMatches = <<>>

\* One pass of the outer FOREACH: the best remaining entry for the query
\* word, then its removal.
MatchQueryWord ==
    /\ scIndex >= 1
    /\ scIndex <= Len(query_words(scQuery))
    /\ LET query_word == query_words(scQuery)[scIndex]
           best == InnerLoop(query_word, scEntries, 1, 0, scMaxWord)
       IN  /\ scMatches' = Append(scMatches,
                               [query_word |-> query_word,
                                max_similarity |-> best.max_similarity,
                                word |-> IF best.max_similarity > 0
                                         THEN best.max_similarity_word ELSE {},
                                entries |-> scEntries])
           /\ scMaxWord' = best.max_similarity_word
           /\ scEntries' = array_remove(scEntries, best.max_similarity_word)
    /\ scIndex' = scIndex + 1
    /\ UNCHANGED <<scQuery, scVector>>

-----------------------------------------------------------------------------
(* Requests against concrete products *)

PROMOTED_CODES == << <<"N", "Q", "S", "_", "F", "4", "G", "M">> >>

\* What the statement reads of an item for the strings of a request: the
\* columns of PreloadedQuery, the two arms of the CASE of
\* FilteredQueryBeforeCheck, the ORDER BY flag and the rows of
\* average_highest_similarity for similarityQ and for q.
ItemView(item, tokens, perfect, patterns, expression, simQuery, query) ==
    [ dataEligible |-> item.dataEligible,
      stock |-> item.stock,
      exactHit |-> EqualsAny(item.ean, tokens) \/ EqualsAny({item.code}, perfect),
      partialHit |-> LikeAny(item.code, patterns)
                         \/ FullTextMatch(item.vector, expression),
      promoted |-> EqualsAny({item.code}, PROMOTED_CODES),
      simT |-> average_highest_similarity(item.vector, simQuery),
      simQ |-> average_highest_similarity(item.vector, query),
      priority |-> item.priority,
      plc |-> item.plc,
      zone |-> item.zone,
      finishes |-> item.finishes ]

Item(ean, code, vector, dataEligible, stock) ==
    [ ean |-> ean, code |-> code, vector |-> vector,
      dataEligible |-> dataEligible, stock |-> stock,
      priority |-> 1, plc |-> "Normalny", zone |-> {}, finishes |-> {} ]

\* The items of the catalogs: codes with and without the underscore, an EAN
\* that is a query token, an EAN that is the empty string, items without a
\* name vector, an item out of stock and one that is not data-eligible.
ItemKinds ==
    << Item({}, <<"a", "_", "w">>,
            {<<"1", "3", ":", "A", " ", "1", "2", ":", "W">>}, TRUE, TRUE),
       Item({}, <<"a", "a", "w">>, {}, TRUE, TRUE),
       Item({<<"a">>}, <<"w">>, {}, TRUE, FALSE),
       Item({<<>>}, <<"w", "w">>, {<<"1", ":", "A", "A", "W">>}, TRUE, TRUE),
       Item({}, <<"w", "w">>, {<<"1", ":", "A", "A", "W">>}, TRUE, TRUE),
       Item({}, <<"a">>, {<<"1", "3", ":", "A">>}, FALSE, TRUE),
       Item({}, <<"w", "w">>, {<<"1", "3", ":", "W", " ", "2", ":", "A">>},
            TRUE, TRUE) >>

\* The words of the queries: two short ones, "a" a connector word of "it",
\* one of more than three characters and one with an underscore.
MatchWords == {<<"a">>, <<"w">>, <<"a", "a", "a", "w">>, <<"a", "_", "w">>}

\* The query strings: the empty one, a blank one, and up to MaxWords words
\* with single spaces between them.
MatchQueries ==
    {<<" ">>} \cup {JoinSpace(ws) : ws \in SeqsUpTo(MatchWords, MaxWords)}

MatchInit ==
    /\ items \in {[i \in DOMAIN ks |-> ItemKinds[ks[i]]]
                     : ks \in KindLists(DOMAIN ItemKinds, MaxItems)}
    /\ queries = <<>>
    /\ TokIdle
    /\ SearchInit({<<>>}, {MaxItems})

MatchIdle ==
    /\ items = <<>>
    /\ queries = <<>>

\* The tokens of a query string as the handler splits them, sorted out of
\* order: the bag of the non-empty ones.
TokenBag(raw) ==
    LET toks == SelectSeq(SplitRegex(NormalizedQuery(raw, "it")), NonEmpty)
    IN  [t \in Range(toks) |-> Cardinality({i \in DOMAIN toks : toks[i] = t})]

\* One request for the first page: the handler from the preprocessing to the
\* response.  A second request asks with the tokens of the first one.
Search(raw) ==
    /\ Len(queries) < MaxPages
    /\ queries # <<>> => TokenBag(raw) = TokenBag(queries[1])
    /\ qRaw' = raw
    /\ lang' = "it"
    /\ q' = NormalizedQuery(qRaw', lang')
    /\ splitQ' = SplitRegex(q')
    /\ perfectCodes' = perfectCodesOf(splitQ')
    /\ similarityQ' = similarityQOf(q')
    /\ tsQuery' = tsQueryOf(splitQ')
    /\ codes' = codesOf(perfectCodes')
    /\ tokPc' = "done"
    /\ catalog' = [i \in DOMAIN items |->
                      ItemView(items[i], splitQ', perfectCodes', codes',
                               tsQuery', similarityQ', q')]
    /\ UNCHANGED <<items, limit, zone, finish>>
    /\ \E ord \in SortedOrders(FinalProductsPool)' :
           pages' = Append(pages, Response(ord, 1, limit)')
    /\ queries' = Append(queries, raw)

-----------------------------------------------------------------------------
(* One request from its validation to its response *)

\* The page and limit parameters a request may carry.
PageParams == -1..MaxPages

LimitParams == -1..MaxLimit

\* A faulty variant: every page and limit is let through.
acceptAnyPagination(pageParam, limitParam) == TRUE

\* getProductsSearchSchema.parse: page and limit must be positive.
getProductsSearchSchema(pageParam, limitParam) == pageParam > 0 /\ limitParam > 0

ValInit ==
    /\ catalog \in {[i \in DOMAIN ks |-> [FacetProduct(ks[i]) EXCEPT !.priority = i]]
                        : ks \in KindLists(FacetKinds, MaxFacetProducts)}
    /\ limit \in LimitParams
    /\ zone = {}
    /\ finish = {}
    /\ pages = <<>>
    /\ reqPage \in PageParams
    /\ valPc = "received"
    /\ stmtResult = {}
    /\ failure = {}

ValIdle ==
    /\ reqPage = 1
    /\ valPc = "idle"
    /\ stmtResult = {}
    /\ failure = {}

\* getValidatedQuery: the handler goes on with the parsed parameters, or the
\* request fails with InvalidPagination.
ValidateQuery ==
    /\ valPc = "received"
    /\ IF getProductsSearchSchema(reqPage, limit)
       THEN valPc' = "validated" /\ failure' = failure
       ELSE valPc' = "failed" /\ failure' = {"InvalidPagination"}
    /\ UNCHANGED <<reqPage, stmtResult, searchVars>>

\* const skip = (page - 1) * limit and the statement.
RunStatement ==
    /\ valPc = "validated"
    /\ \E ord \in SortedOrders(FinalProductsPool) :
           stmtResult' = {QueryResult(ord, skip(reqPage, limit), limit)}
    /\ valPc' = "queried"
    /\ UNCHANGED <<reqPage, failure, searchVars>>

\* pagesCount and the returned value.
Return ==
    /\ valPc = "queried"
    /\ \E r \in stmtResult :
           pages' = Append(pages, HandlerResponse(reqPage, limit,
                                                  skip(reqPage, limit), r))
    /\ valPc' = "responded"
    /\ UNCHANGED <<reqPage, stmtResult, failure, catalog, limit, zone, finish>>

\* C18: a request with page <= 0 or limit <= 0 fails with InvalidPagination
\* and runs no statement; no response has a negative offset or a limit that
\* is not positive.
InvalidPaginationRejected ==
    /\ (reqPage <= 0 \/ limit <= 0) =>
           /\ valPc \in {"received", "failed"}
           /\ stmtResult = {}
           /\ pages = <<>>
           /\ valPc = "failed" => failure = {"InvalidPagination"}
    /\ \A k \in DOMAIN pages : pages[k].skip >= 0 /\ pages[k].limit > 0

\* A request for page 1 with limit 0 has failed.
InvalidPaginationWitness ==
    /\ reqPage = 1
    /\ limit = 0
    /\ valPc = "failed"
    /\ failure = {"InvalidPagination"}
    /\ stmtResult = {}

-----------------------------------------------------------------------------
(* Properties of the requests against concrete products *)

\* c is a substring of s.
Contains(s, c) ==
    \E i \in 0..(Len(s) - Len(c)) : SubSeq(s, i + 1, i + Len(c)) = c

\* The tier of an item for the last request, by the rule of the resolver.
ResolverTier(item) ==
    IF \/ \E t \in Range(splitQ) : item.ean = {t}
       \/ \E c \in Range(perfectCodes) : item.code = c
    THEN 2
    ELSE IF \/ \E c \in Range(perfectCodes) : Contains(item.code, c)
            \/ FullTextMatch(item.vector, tsQuery)
    THEN 1
    ELSE 0

\* C11: a data-eligible item is Exact iff its EAN equals a query token or its
\* code equals a perfect-code candidate, else Partial iff its code contains a
\* perfect-code candidate as a substring or its vector matches the full-text
\* expression, else 0; an item that is not data-eligible is not classified and
\* not returned.
PerItemTierClassification ==
    queries # <<>> =>
        \A i \in DOMAIN items :
            IF items[i].dataEligible
            THEN Tier(i) = ResolverTier(items[i])
            ELSE i \notin PreloadedQuery /\ i \notin OnPage(Len(pages))

\* The rows of the response to the last request.
LastPage == pages[Len(pages)]

\* No candidate of the last request is Exact or Partial: the fuzzy tier decides.
FuzzyTierActive == queries # <<>> /\ CandidateTiers \cap {1, 2} = {}

\* C13: the scores the Fuzzy tier compares with the sensitivity threshold, and
\* returns, are those of the truncated similarity string.
FuzzyScoredOnSimilarityTerms ==
    FuzzyTierActive =>
        \A i \in Candidates :
            LET s == average_highest_similarity(items[i].vector, similarityQ)
            IN  /\ i \in OnPage(Len(pages)) <=> AboveSensitivity(s)
                /\ \A r \in Range(LastPage.data) :
                       r.id = i => r.avg = s.avg /\ r.avgww = s.avgww

\* All tokens of the last request are empty.
BlankQuery == queries # <<>> /\ SelectSeq(splitQ, NonEmpty) = <<>>

\* C16: the response to a blank query holds every data-eligible,
\* stock-eligible item, never a proper subset of them.
EmptyQueryReturnsAllEligible ==
    BlankQuery =>
        \A i \in DOMAIN items :
            (items[i].dataEligible /\ items[i].stock) => i \in OnPage(Len(pages))

\* C17: an item without a name vector is in no response, whatever its tier.
MissingVectorExcluded ==
    queries # <<>> =>
        \A i \in DOMAIN items : items[i].vector = {} => i \notin OnPage(Len(pages))

-----------------------------------------------------------------------------
(* Properties of the similarity scoring *)

\* The vector terms no query word before the k-th has taken.
RemainingFor(k) ==
    LET taken == UNION {scMatches[j].word : j \in 1..(k - 1)}
    IN  SelectSeq(tsvector_entries(scVector), LAMBDA e : e.word \notin taken)

BonusSimilarity(query_word, e) == similarity(query_word, e.word) + e.weight

-----------------------------------------------------------------------------
(* Properties of the concurrent runs *)

\* The vectors buildNameVector returns for the contents of the product.
CompleteVectors == {buildNameVector(vecLang, p) : p \in VecProducts}

AloneResponses(r) ==
    {Response(ord, event[r].page, event[r].limit)
        : ord \in SortedOrders(FinalProductsPool)}

RespondsAsAlone ==
    \A r \in DOMAIN reqPc :
        reqPc[r] = "done" =>
            /\ Cardinality(response[r]) = 1
            /\ response[r] \subseteq AloneResponses(r)

\* C10: no step of a request changes the catalog or a name vector, and in
\* every interleaving of the requests each one returns a response it returns
\* when it runs alone.
QueryIndependence ==
    /\ [][<<catalog, zone, finish, nameVector>>'
              = <<catalog, zone, finish, nameVector>>]_vars
    /\ []RespondsAsAlone

\* One request has returned a page with a row while another request, for
\* another page and page size, is between its statement and its response.
QueryIndependenceWitness ==
    /\ reqPc # <<>>
    /\ reqPc["r1"] = "done"
    /\ reqPc["r2"] = "replied"
    /\ event["r1"].page # event["r2"].page
    /\ event["r1"].limit # event["r2"].limit
    /\ \E x \in response["r1"] : Len(x.data) >= 1

-----------------------------------------------------------------------------
(* Specifications *)

InitTok == TokInit /\ WeightIdle /\ SearchIdle /\ VecIdle /\ ParIdle /\ ScoreIdle /\ MatchIdle /\ ValIdle

NextTok == Preprocess /\ UNCHANGED <<weightVars, searchVars, vecVars, parVars, scoreVars, matchVars, valVars>>

\* The preprocessing of every query over the alphabet.
SpecTok == InitTok /\ [][NextTok]_vars

InitWeight == TokIdle /\ WeightInit /\ SearchIdle /\ VecIdle /\ ParIdle /\ ScoreIdle /\ MatchIdle /\ ValIdle

NextWeight == AddWeight /\ UNCHANGED <<tokVars, searchVars, vecVars, parVars, scoreVars, matchVars, valVars>>

\* addWeightToString on every field value and base weight.
SpecWeight == InitWeight /\ [][NextWeight]_vars

Init == TokIdle /\ WeightIdle /\ TierInit /\ VecIdle /\ ParIdle /\ ScoreIdle /\ MatchIdle /\ ValIdle

Next == FetchPage /\ UNCHANGED <<tokVars, weightVars, vecVars, parVars, scoreVars, matchVars, valVars>>

\* The pages of a search, one request after the other, on the tier catalogs.
Spec == Init /\ [][Next]_vars

InitRank == TokIdle /\ WeightIdle /\ RankInit /\ VecIdle /\ ParIdle /\ ScoreIdle /\ MatchIdle /\ ValIdle

\* The same on the ranking catalogs.
SpecRank == InitRank /\ [][Next]_vars

InitFacet == TokIdle /\ WeightIdle /\ FacetInit /\ VecIdle /\ ParIdle /\ ScoreIdle /\ MatchIdle /\ ValIdle

\* The same on the facet catalogs, with the zone and finish filters.
SpecFacet == InitFacet /\ [][Next]_vars

InitVec == TokIdle /\ WeightIdle /\ SearchIdle /\ VecInit /\ ParIdle /\ ScoreIdle /\ MatchIdle /\ ValIdle

OnlyVec == UNCHANGED <<tokVars, weightVars, searchVars, parVars, scoreVars, matchVars, valVars>>

NextVec ==
    \/ ChangeProduct /\ OnlyVec
    \/ BuildVector /\ OnlyVec
    \/ PublishVector /\ OnlyVec
    \/ BeginStatement /\ OnlyVec
    \/ ReadFullText /\ OnlyVec
    \/ ReadSimilarity /\ OnlyVec
    \/ EndStatement /\ OnlyVec

\* Rebuilds of the name vector of a product while statements read it.
SpecVec == InitVec /\ [][NextVec]_vars

InitBuild == TokIdle /\ WeightIdle /\ SearchIdle /\ BuildInit /\ ParIdle /\ ScoreIdle /\ MatchIdle /\ ValIdle

NextBuild == BuildVector /\ OnlyVec

\* buildNameVector on every product and language.
SpecBuild == InitBuild /\ [][NextBuild]_vars

InitPar == TokIdle /\ WeightIdle /\ ParInit /\ VecIdle /\ ScoreIdle /\ MatchIdle /\ ValIdle

OnlyPar == UNCHANGED <<tokVars, weightVars, searchVars, vecVars, scoreVars, matchVars, valVars>>

NextPar ==
    \/ \E r \in Requests : Prepare(r) /\ OnlyPar
    \/ \E r \in Requests : Execute(r) /\ OnlyPar
    \/ \E r \in Requests : Respond(r) /\ OnlyPar

\* Two requests in flight against one catalog.
SpecPar == InitPar /\ [][NextPar]_vars

InitScore ==
    TokIdle /\ WeightIdle /\ SearchIdle /\ VecIdle /\ ParIdle /\ ScoreInit
        /\ MatchIdle /\ ValIdle

NextScore ==
    MatchQueryWord
        /\ UNCHANGED <<tokVars, weightVars, searchVars, vecVars, parVars, matchVars, valVars>>

\* The loop of average_highest_similarity over a query and a vector.
SpecScore == InitScore /\ [][NextScore]_vars

InitMatch == WeightIdle /\ VecIdle /\ ParIdle /\ ScoreIdle /\ MatchInit /\ ValIdle

NextMatch ==
    /\ \E raw \in MatchQueries : Search(raw)
    /\ UNCHANGED <<weightVars, vecVars, parVars, scoreVars, valVars>>

\* Requests against catalogs of concrete products.
SpecMatch == InitMatch /\ [][NextMatch]_vars

InitVal == TokIdle /\ WeightIdle /\ ValInit /\ VecIdle /\ ParIdle /\ ScoreIdle /\ MatchIdle

OnlyVal == UNCHANGED <<tokVars, weightVars, vecVars, parVars, scoreVars, matchVars>>

NextVal ==
    \/ ValidateQuery /\ OnlyVal
    \/ RunStatement /\ OnlyVal
    \/ Return /\ OnlyVal

\* One request with any page and limit parameter.
SpecVal == InitVal /\ [][NextVal]_vars

=============================================================================
